---- MODULE Spec2Model ----
(***************************************************************************)
(* Model of the suggestion / matching / approval pipeline of the           *)
(* Lunch Money auto-categorizer (src/unnamed/part_000, first copy of the   *)
(* application source, lines 1..1306).                                     *)
(*                                                                         *)
(* Text is modelled as a sequence of one-character strings, so that        *)
(* toLowerCase, includes, trim, String(n) and Number(s) are computed and   *)
(* not assumed.  A model response is a sequence of lexical tokens.         *)
(***************************************************************************)
EXTENDS Integers, Sequences, FiniteSets, TLC

VARIABLES
    cancelled,        \* the global cancel flag (let cancelled)
    pc,               \* where run() is suspended: idle, fetchCats, fetchTxs, suggesting, awaiting, committing
    runBtnDisabled,   \* #runBtn.disabled
    cancelBtnDisabled,\* #cancelBtn.disabled
    cancelListeners,  \* number of onGlobalCancel listeners on the current #cancelBtn node
    categories,       \* const categories of run()
    txs,              \* const txs of run()
    idx,              \* position of the for-of loop in txs (1-based), 0 outside the loop
    done,             \* let done of run()
    bar,              \* width of #bar in percent
    modalOpen,        \* #modal has class show
    loadingShown,     \* #modalLoading has class show
    saveDisabled,     \* #saveBtn.disabled
    errorShown,       \* the modal title shows the AI error
    selectOptions,    \* option values of #catSelect, in order
    selectValue,      \* #catSelect.value
    suggRows,         \* the suggestion rows rendered in #suggestWrap
    gateListeners,    \* onSave/onSkip/onCancel/onKey are attached
    chosenId,         \* const chosenId of the current iteration
    content,          \* const content of chooseCategoryOptions: the text the model returned
    log,              \* the lines of #log
    ledger,           \* remote ledger: transaction id -> category id
    trace,            \* history: what the current run has done so far
    runs,             \* history: number of runs started
    probe             \* input and output of a pure function under test

vars == <<cancelled, pc, runBtnDisabled, cancelBtnDisabled, cancelListeners,
          categories, txs, idx, done, bar, modalOpen, loadingShown, saveDisabled,
          errorShown, selectOptions, selectValue, suggRows, gateListeners,
          chosenId, content, log, ledger, trace, runs, probe>>

\* null / undefined of the source
NULL == -1

\* ------------------------------------------------------------------------
\* Bounds of the model
MaxRuns == 2
MaxCats == 3
MaxSuggestions == 3
MaxTokens == 4

\* ------------------------------------------------------------------------
\* Text helpers

\* F(v), with v evaluated once
Bind(v, F(_)) == CHOOSE r \in {F(x) : x \in {v}} : TRUE

UpperLetters == <<"A","B","C","D","E","F","G","H","I","J","K","L","M",
                  "N","O","P","Q","R","S","T","U","V","W","X","Y","Z">>
LowerLetters == <<"a","b","c","d","e","f","g","h","i","j","k","l","m",
                  "n","o","p","q","r","s","t","u","v","w","x","y","z">>

LowerOf == [c \in {UpperLetters[i] : i \in 1..26} |->
               LowerLetters[CHOOSE i \in 1..26 : UpperLetters[i] = c]]

LowerChar(c) == IF c \in DOMAIN LowerOf THEN LowerOf[c] ELSE c

\* String.prototype.toLowerCase
toLowerCase(s0) == Bind(s0, LAMBDA s : [i \in 1..Len(s) |-> LowerChar(s[i])])

\* String.prototype.includes
includes(hay0, needle0) ==
    Bind(<<hay0, needle0>>, LAMBDA a :
        \E i \in 0..(Len(a[1]) - Len(a[2])) :
            SubSeq(a[1], i + 1, i + Len(a[2])) = a[2])

Min(S0) == Bind(S0, LAMBDA S : CHOOSE x \in S : \A y \in S : x <= y)
Max(S0) == Bind(S0, LAMBDA S : CHOOSE x \in S : \A y \in S : y <= x)

\* String.prototype.trim
trim(s0) ==
    Bind(s0, LAMBDA s :
        Bind({i \in 1..Len(s) : s[i] # " "}, LAMBDA solid :
            IF solid = {} THEN <<>> ELSE SubSeq(s, Min(solid), Max(solid))))

Digits == <<"0","1","2","3","4","5","6","7","8","9">>

\* String(n) for a non-negative integer
RECURSIVE NumberToString(_)
NumberToString(n0) ==
    Bind(n0, LAMBDA n :
        IF n < 10 THEN <<Digits[n + 1]>>
        ELSE NumberToString(n \div 10) \o <<Digits[(n % 10) + 1]>>)

DigitValue(c) == (CHOOSE i \in 1..10 : Digits[i] = c) - 1

\* Number(s) for a string of decimal digits
RECURSIVE StringToNumber(_)
StringToNumber(s0) ==
    Bind(s0, LAMBDA s :
        IF s = <<>> THEN 0
        ELSE StringToNumber(SubSeq(s, 1, Len(s) - 1)) * 10 + DigitValue(s[Len(s)]))

\* Array.prototype.find: index of the first element satisfying P, 0 if none
FindIndex(arr0, P(_)) ==
    Bind(arr0, LAMBDA arr :
        Bind({i \in 1..Len(arr) : P(arr[i])}, LAMBDA hits :
            IF hits = {} THEN 0 ELSE Min(hits)))

\* ------------------------------------------------------------------------
\* Sample names

Gas == <<"G","a","s">>
GasLower == <<"g","a","s">>
GasTransportation == <<"G","a","s",","," ","T","r","a","n","s","p","o","r","t","a","t","i","o","n">>
Groceries == <<"G","r","o","c","e","r","i","e","s">>
GroceriesLower == <<"g","r","o","c","e","r","i","e","s">>
GroceriesPadded == <<" ">> \o Groceries \o <<" ">>
Zzz == <<"Z","z","z">>
Empty == <<>>

\* ------------------------------------------------------------------------
\* Response parsing (chooseCategoryOptions, after the model call returned)

\* A suggestion entry as it stands in the JSON text
RawEntry(name, isNum, v) == [name |-> name, confidence |-> [isNum |-> isNum, v |-> v]]

\* Lexical tokens of a response.  kind is one of
\*   fence  ```            json   the tag after a fence      sp     white space
\*   word   prose          lb {   rb }                       scalar a JSON scalar
\*   sugg   the member "suggestions": [ v ]
\*   suggNA the member "suggestions": <not an array>
Tok(kind) == [kind |-> kind, v |-> <<>>]
SuggTok(entries) == [kind |-> "sugg", v |-> entries]

\* String.prototype.trim on a text of tokens
trimTok(s0) ==
    Bind(s0, LAMBDA s :
        Bind({i \in 1..Len(s) : s[i].kind # "sp"}, LAMBDA solid :
            IF solid = {} THEN <<>> ELSE SubSeq(s, Min(solid), Max(solid))))

\* /```(?:json)?\s*([\s\S]*?)\s*```/i.exec(raw): the capture group, or raw when
\* there is no match
FencedInterior(raw0) ==
    Bind(raw0, LAMBDA raw :
        Bind({i \in 1..Len(raw) : raw[i].kind = "fence"}, LAMBDA fences :
            IF Cardinality(fences) < 2 THEN raw
            ELSE Bind(<<Min(fences), Min(fences \ {Min(fences)})>>, LAMBDA f :
                    trimTok(SubSeq(raw,
                                   IF f[1] + 1 < f[2] /\ raw[f[1] + 1].kind = "json"
                                   THEN f[1] + 2 ELSE f[1] + 1,
                                   f[2] - 1)))))

\* JSON.parse: ok is FALSE when it throws; isArr and arr describe
\* parsed?.suggestions
JSONparse(text) ==
    Bind(SelectSeq(text, LAMBDA tok : tok.kind # "sp"), LAMBDA core :
        LET n == Len(core)
            isObject == /\ n >= 2
                        /\ core[1].kind = "lb"
                        /\ core[n].kind = "rb"
                        /\ \A i \in 2..(n - 1) : core[i].kind \in {"sugg", "suggNA"}
            isScalar == n = 1 /\ core[1].kind = "scalar"
        IN IF isObject /\ n > 2
           THEN [ok |-> TRUE,
                 isArr |-> core[n - 1].kind = "sugg",
                 arr |-> core[n - 1].v]
           ELSE [ok |-> isObject \/ isScalar, isArr |-> FALSE, arr |-> <<>>])

\* String.prototype.indexOf / lastIndexOf on tokens, 0-based, -1 when absent
indexOfKind(text, k) ==
    Bind({i \in 1..Len(text) : text[i].kind = k}, LAMBDA hits :
        IF hits = {} THEN -1 ELSE Min(hits) - 1)

lastIndexOfKind(text, k) ==
    Bind({i \in 1..Len(text) : text[i].kind = k}, LAMBDA hits :
        IF hits = {} THEN -1 ELSE Max(hits) - 1)

\* arr.map(...).filter(s => s.name.length > 0).slice(0, 3)
NoConfidence == [isNum |-> FALSE, v |-> 0]

mapSuggestion(s) ==
    [name |-> trim(s.name),
     confidence |-> IF s.confidence.isNum THEN s.confidence ELSE NoConfidence]

\* variant: the list is cut to three entries before the empty names are dropped
mapSliceFilter(arr0) ==
    Bind(arr0, LAMBDA arr :
        SelectSeq([i \in 1..(IF Len(arr) < 3 THEN Len(arr) ELSE 3) |-> mapSuggestion(arr[i])],
                  LAMBDA s : Len(s.name) > 0))

mapFilterSlice(arr0) ==
    Bind(arr0, LAMBDA arr :
        Bind(SelectSeq([i \in 1..Len(arr) |-> mapSuggestion(arr[i])],
                       LAMBDA s : Len(s.name) > 0),
             LAMBDA kept : SubSeq(kept, 1, IF Len(kept) < 3 THEN Len(kept) ELSE 3)))

\* what chooseCategoryOptions returns for a parsed value
suggestionsOf(parsed0) ==
    Bind(parsed0, LAMBDA parsed :
        [threw |-> FALSE,
         suggestions |-> IF parsed.isArr THEN mapFilterSlice(parsed.arr) ELSE <<>>])

\* The part of chooseCategoryOptions after the post-call checkpoint.
\* threw is TRUE when an exception leaves the function.
parseResponse(text) ==
    Bind(trimTok(text), LAMBDA raw :
        IF raw = <<>> THEN [threw |-> FALSE, suggestions |-> <<>>]
        ELSE Bind(trimTok(FencedInterior(raw)), LAMBDA jsonText :
            Bind(<<JSONparse(jsonText), indexOfKind(jsonText, "lb"),
                   lastIndexOfKind(jsonText, "rb")>>, LAMBDA a :
                LET direct == a[1]
                    start == a[2]
                    end == a[3]
                IN IF direct.ok THEN suggestionsOf(direct)
                   ELSE IF start >= 0 /\ end > start
                   THEN Bind(JSONparse(SubSeq(jsonText, start + 1, end + 1)), LAMBDA sliced :
                            IF sliced.ok THEN suggestionsOf(sliced)
                            ELSE [threw |-> TRUE, suggestions |-> <<>>])
                   ELSE [threw |-> FALSE, suggestions |-> <<>>])))

\* ------------------------------------------------------------------------
\* Category matching and validation

Category(id, name) == [id |-> id, name |-> name, archived |-> FALSE, is_group |-> FALSE]

\* variant: one pass over the list that accepts a hit of any tier
matchCategoryIdAnyTier(name0, cats0) ==
    Bind(<<name0, cats0, toLowerCase(name0)>>, LAMBDA a :
        LET name == a[1]
            cats == a[2]
            lo == a[3]
        IN Bind(FindIndex(cats, LAMBDA c : \/ c.name = name
                                           \/ toLowerCase(c.name) = lo
                                           \/ includes(toLowerCase(c.name), lo)
                                           \/ includes(lo, toLowerCase(c.name))),
                LAMBDA hit : IF hit # 0 THEN cats[hit].id ELSE NULL))

matchCategoryId(name0, cats0) ==
    Bind(<<name0, cats0, toLowerCase(name0)>>, LAMBDA a :
        LET name == a[1]
            cats == a[2]
            lo == a[3]
        IN Bind(FindIndex(cats, LAMBDA c : c.name = name), LAMBDA exact :
            IF exact # 0 THEN cats[exact].id
            ELSE Bind(FindIndex(cats, LAMBDA c : toLowerCase(c.name) = lo), LAMBDA ci :
                IF ci # 0 THEN cats[ci].id
                ELSE Bind(FindIndex(cats, LAMBDA c : \/ includes(toLowerCase(c.name), lo)
                                                     \/ includes(lo, toLowerCase(c.name))),
                          LAMBDA fuzzy : IF fuzzy # 0 THEN cats[fuzzy].id ELSE NULL))))

\* variant: keeps every suggestion the matcher can resolve
validateByMatcher(suggestions, cats0) ==
    Bind(cats0, LAMBDA cats :
        SelectSeq(suggestions, LAMBDA s : matchCategoryId(s.name, cats) # NULL))

validateCategorySuggestions(suggestions, cats0) ==
    Bind(cats0, LAMBDA cats :
        Bind({cats[i].name : i \in 1..Len(cats)}, LAMBDA validCategoryNames :
            SelectSeq(suggestions, LAMBDA s : s.name \in validCategoryNames)))

\* ------------------------------------------------------------------------
\* populateCategorySelect: [...categories].sort((a, b) => a.name.localeCompare(b.name))

Collation == <<" ", ",", "0","1","2","3","4","5","6","7","8","9",
               "a","b","c","d","e","f","g","h","i","j","k","l","m",
               "n","o","p","q","r","s","t","u","v","w","x","y","z">>

RankOf == [c \in {Collation[i] : i \in 1..Len(Collation)} |->
              CHOOSE i \in 1..Len(Collation) : Collation[i] = c]

CharRank(c) == IF LowerChar(c) \in DOMAIN RankOf THEN RankOf[LowerChar(c)] ELSE 0

\* a.localeCompare(b) < 0, up to the case of the letters
localeLess(a0, b0) ==
    Bind(<<a0, b0>>, LAMBDA p :
        LET a == p[1]
            b == p[2]
        IN Bind({i \in 1..(IF Len(a) < Len(b) THEN Len(a) ELSE Len(b)) :
                    CharRank(a[i]) # CharRank(b[i])},
                LAMBDA differ :
                    IF differ = {} THEN Len(a) < Len(b)
                    ELSE Bind(Min(differ), LAMBDA d : CharRank(a[d]) < CharRank(b[d]))))

\* [...cats].sort((a, b) => a.name.localeCompare(b.name)); the sort is stable
sortByName(cats0) ==
    Bind(cats0, LAMBDA cats :
        LET before(j, i) == \/ localeLess(cats[j].name, cats[i].name)
                            \/ (~localeLess(cats[i].name, cats[j].name) /\ j < i)
        IN Bind([i \in 1..Len(cats) |-> 1 + Cardinality({j \in 1..Len(cats) : before(j, i)})],
                LAMBDA pos :
                    [p \in 1..Len(cats) |-> cats[CHOOSE i \in 1..Len(cats) : pos[i] = p]]))

\* the option values written by populateCategorySelect, after the empty option
optionValues(cats) ==
    Bind(sortByName(cats), LAMBDA sorted :
        [i \in 1..Len(sorted) |-> NumberToString(sorted[i].id)])

\* select.value = v: the option with that value becomes selected, none otherwise
setSelectValue(options0, v0) ==
    Bind(<<options0, v0>>, LAMBDA a :
        IF \E i \in 1..Len(a[1]) : a[1][i] = a[2] THEN a[2] ELSE <<>>)

\* JavaScript truthiness of a number | null
Truthy(n) == n # NULL /\ n # 0

\* ------------------------------------------------------------------------
\* The world outside: the ledger service and the model backend

NumTx == 2
TxIds == 1..NumTx
GroupTxId == NumTx + 1

\* categories as the ledger service returns them (archived and group ones included)
ServerCategories ==
    <<Category(1, Groceries),
      Category(2, GasTransportation),
      [id |-> 3, name |-> Zzz, archived |-> TRUE, is_group |-> FALSE],
      [id |-> 4, name |-> Gas, archived |-> FALSE, is_group |-> TRUE]>>

CategoriesResponses == {ServerCategories, <<>>}

\* transactions as the ledger service returns them for the current ledger state
ServerTransactions(led) ==
    [i \in 1..(NumTx + 1) |->
        IF i = GroupTxId
        THEN [id |-> i, category_id |-> NULL, is_group |-> TRUE]
        ELSE [id |-> i, category_id |-> led[i], is_group |-> FALSE]]

\* model outputs
FencedGroceries ==
    <<Tok("word"), Tok("sp"), Tok("fence"), Tok("json"), Tok("sp"), Tok("lb"),
      SuggTok(<<RawEntry(Groceries, TRUE, 900)>>), Tok("rb"), Tok("sp"), Tok("fence")>>
NotJsonAtAll == <<Tok("word"), Tok("sp"), Tok("word")>>
NoiseAroundEmpty ==
    <<Tok("word"), Tok("sp"), Tok("lb"), SuggTok(<<>>), Tok("rb"), Tok("sp"), Tok("word")>>
BrokenBraces == <<Tok("lb"), Tok("word"), Tok("rb")>>
MixedNames ==
    <<Tok("lb"),
      SuggTok(<<RawEntry(Gas, TRUE, 85000),
                RawEntry(GasTransportation, TRUE, 450),
                RawEntry(GroceriesLower, FALSE, 0)>>),
      Tok("rb")>>

\* the outputs the model backend may return during a run
Responses == {NotJsonAtAll, BrokenBraces, MixedNames}

\* ------------------------------------------------------------------------
\* buildSystemPrompt

NL == <<"\n">>

\* the string literals of the array before categoriesWithIds.join("\n")
promptBefore ==
    <<<<"Y","o","u"," ","c","a","t","e","g","o","r","i","z","e"," ","p","e","r","s","o",
        "n","a","l"," ","f","i","n","a","n","c","e"," ","t","r","a","n","s","a","c","t",
        "i","o","n","s",".">>,
      <<>>,
      <<"C","R","I","T","I","C","A","L"," ","R","E","Q","U","I","R","E","M","E","N","T",
        "S",":">>,
      <<"-"," ","Y","o","u"," ","M","U","S","T"," ","O","N","L","Y"," ","c","h","o","o",
        "s","e"," ","c","a","t","e","g","o","r","y"," ","n","a","m","e","s"," ","f","r",
        "o","m"," ","t","h","e"," ","E","X","A","C","T"," ","l","i","s","t"," ","p","r",
        "o","v","i","d","e","d"," ","b","e","l","o","w">>,
      <<"-"," ","C","a","t","e","g","o","r","y"," ","n","a","m","e","s"," ","m","u","s",
        "t"," ","m","a","t","c","h"," ","E","X","A","C","T","L","Y"," ","-"," ","c","h",
        "a","r","a","c","t","e","r"," ","f","o","r"," ","c","h","a","r","a","c","t","e",
        "r",","," ","i","n","c","l","u","d","i","n","g"," ","p","u","n","c","t","u","a",
        "t","i","o","n"," ","a","n","d"," ","s","p","a","c","i","n","g">>,
      <<"-"," ","D","O"," ","N","O","T"," ","c","r","e","a","t","e"," ","n","e","w"," ",
        "c","a","t","e","g","o","r","i","e","s",","," ","s","p","l","i","t"," ","c","o",
        "m","p","o","u","n","d"," ","c","a","t","e","g","o","r","i","e","s",","," ","o",
        "r"," ","u","s","e"," ","v","a","r","i","a","t","i","o","n","s">>,
      <<"-"," ","D","O"," ","N","O","T"," ","u","s","e"," ","s","i","m","i","l","a","r",
        "-","s","o","u","n","d","i","n","g"," ","n","a","m","e","s"," ","t","h","a","t",
        " ","a","r","e","n","'","t"," ","i","n"," ","t","h","e"," ","l","i","s","t">>,
      <<"-"," ","I","f"," ","u","n","s","u","r","e",","," ","p","i","c","k"," ","t","h",
        "e"," ","c","l","o","s","e","s","t"," ","m","a","t","c","h"," ","f","r","o","m",
        " ","t","h","e"," ","p","r","o","v","i","d","e","d"," ","l","i","s","t">>,
      <<>>,
      <<"E","X","A","M","P","L","E",":"," ","I","f"," ","t","h","e"," ","l","i","s","t",
        " ","c","o","n","t","a","i","n","s"," ","'","G","a","s",","," ","T","r","a","n",
        "s","p","o","r","t","a","t","i","o","n","'",","," ","y","o","u"," ","m","u","s",
        "t"," ","u","s","e"," ","'","G","a","s",","," ","T","r","a","n","s","p","o","r",
        "t","a","t","i","o","n","'"," ","e","x","a","c","t","l","y"," ","-"," ","N","E",
        "V","E","R"," ","'","G","a","s","'"," ","o","r"," ","'","T","r","a","n","s","p",
        "o","r","t","a","t","i","o","n","'"," ","s","e","p","a","r","a","t","e","l","y",
        ".">>,
      <<>>,
      <<"R","e","t","u","r","n"," ","O","N","L","Y"," ","v","a","l","i","d"," ","J","S",
        "O","N"," ","w","i","t","h"," ","t","h","i","s"," ","e","x","a","c","t"," ","s",
        "t","r","u","c","t","u","r","e",":">>,
      <<"{"," ","\"","s","u","g","g","e","s","t","i","o","n","s","\"",":"," ","[">>,
      <<" "," ","{"," ","\"","n","a","m","e","\"",":"," ","\"","<","E","X","A","C","T",
        " ","c","a","t","e","g","o","r","y"," ","n","a","m","e"," ","f","r","o","m"," ",
        "t","h","e"," ","l","i","s","t"," ","b","e","l","o","w",">","\"",","," ","\"",
        "j","u","s","t","i","f","i","c","a","t","i","o","n","\"",":"," ","\"","<","s",
        "h","o","r","t"," ","r","e","a","s","o","n",">","\"",","," ","\"","c","o","n",
        "f","i","d","e","n","c","e","\"",":"," ","0",".","8","5"," ","}">>,
      <<"]"," ","}">>,
      <<>>,
      <<"R","E","Q","U","I","R","E","M","E","N","T","S",":">>,
      <<"-"," ","I","n","c","l","u","d","e"," ","3"," ","s","u","g","g","e","s","t","i",
        "o","n","s",","," ","s","o","r","t","e","d"," ","b","y"," ","c","o","n","f","i",
        "d","e","n","c","e"," ","(","h","i","g","h","e","s","t"," ","f","i","r","s","t",
        ")">>,
      <<"-"," ","C","a","t","e","g","o","r","y"," ","n","a","m","e","s"," ","m","u","s",
        "t"," ","b","e"," ","E","X","A","C","T"," ","m","a","t","c","h","e","s"," ","f",
        "r","o","m"," ","t","h","e"," ","l","i","s","t"," ","b","e","l","o","w">>,
      <<"-"," ","C","o","n","f","i","d","e","n","c","e"," ","s","h","o","u","l","d"," ",
        "b","e"," ","0",".","0","-","1",".","0"," ","(","n","o","t"," ","p","e","r","c",
        "e","n","t","a","g","e","s",")">>,
      <<"-"," ","K","e","e","p"," ","j","u","s","t","i","f","i","c","a","t","i","o","n",
        "s"," ","t","o"," ","o","n","e"," ","s","e","n","t","e","n","c","e">>,
      <<>>,
      <<"A","V","A","I","L","A","B","L","E"," ","C","A","T","E","G","O","R","I","E","S",
        " ","(","y","o","u"," ","m","u","s","t"," ","c","h","o","o","s","e"," ","f","r",
        "o","m"," ","t","h","i","s"," ","e","x","a","c","t"," ","l","i","s","t",")",":">>,
      <<"N","o","t","e",":"," ","S","o","m","e"," ","c","a","t","e","g","o","r","i","e",
        "s"," ","i","n","c","l","u","d","e"," ","d","e","s","c","r","i","p","t","i","o",
        "n","s"," ","t","o"," ","h","e","l","p"," ","y","o","u"," ","u","n","d","e","r",
        "s","t","a","n","d"," ","t","h","e","i","r"," ","p","u","r","p","o","s","e",".">>,
      <<>>>>

\* the string literals after it
promptAfter ==
    <<<<>>,
      <<"R","e","m","e","m","b","e","r",":"," ","U","s","e"," ","t","h","e"," ","E","X",
        "A","C","T"," ","c","a","t","e","g","o","r","y"," ","n","a","m","e"," ","a","s",
        " ","s","h","o","w","n"," ","a","b","o","v","e","."," ","D","o"," ","n","o","t",
        " ","m","o","d","i","f","y",","," ","a","b","b","r","e","v","i","a","t","e",",",
        " ","o","r"," ","c","r","e","a","t","e"," ","v","a","r","i","a","t","i","o","n",
        "s",".">>>>

\* Array.prototype.join
RECURSIVE join(_, _)
join(parts, sep) ==
    IF Len(parts) = 0 THEN <<>>
    ELSE IF Len(parts) = 1 THEN parts[1]
    ELSE parts[1] \o sep \o join(Tail(parts), sep)

\* `"${c.name}" (ID: ${c.id})`, then ` - ${c.description.trim()}` if not empty
categoryInfo(c) ==
    <<"\"">> \o c.name \o <<"\"", " ", "(", "I", "D", ":", " ">>
        \o NumberToString(c.id) \o <<")">>
        \o (IF trim(c.description) # <<>>
            THEN <<" ", "-", " ">> \o trim(c.description)
            ELSE <<>>)

\* variant: the categories are listed in the order of the select
buildSystemPromptSorted(cats) ==
    LET sorted == sortByName(cats)
        categoriesWithIds == [i \in 1..Len(sorted) |-> categoryInfo(sorted[i])]
    IN join(SelectSeq(promptBefore \o <<join(categoriesWithIds, NL)>> \o promptAfter,
                      LAMBDA line : line # <<>>),
            NL)

buildSystemPrompt(cats) ==
    LET categoriesWithIds == [i \in 1..Len(cats) |-> categoryInfo(cats[i])]
    IN join(SelectSeq(promptBefore \o <<join(categoriesWithIds, NL)>> \o promptAfter,
                      LAMBDA line : line # <<>>),
            NL)

\* ------------------------------------------------------------------------
\* buildTransactionPrompt

\* null or undefined where a string is expected
Undefined == <<"undefined">>

\* a ?? b
Nullish(a, b) == IF a = Undefined THEN b ELSE a

\* a || b on strings
OrElse(a, b) == IF a = Undefined \/ a = <<>> THEN b ELSE a

Unknown == <<"U", "n", "k", "n", "o", "w", "n">>

\* what parsePlaidMetadata gives for no metadata: every member reads undefined
NoPlaidMeta ==
    [category |-> <<>>, hasCategory |-> FALSE, city |-> Undefined, region |-> Undefined,
     merchant_name |-> Undefined, name |-> Undefined, primary |-> Undefined,
     detailed |-> Undefined, payment_channel |-> Undefined, counterparties |-> <<>>,
     transaction_type |-> Undefined, confidence_level |-> Undefined,
     category_id |-> Undefined, pending |-> "unknown", iso_currency_code |-> Undefined]

buildTransactionPrompt(t) ==
    LET plaidMeta == t.plaid_metadata
        plaidCategory == OrElse(IF plaidMeta.hasCategory
                                THEN join(plaidMeta.category, <<",", " ">>)
                                ELSE Undefined, Unknown)
        location == OrElse(join(SelectSeq(<<plaidMeta.city, plaidMeta.region>>,
                                          LAMBDA x : x # Undefined /\ x # <<>>),
                                <<",", " ">>), Unknown)
        merchant == OrElse(plaidMeta.merchant_name,
                           OrElse(plaidMeta.name, OrElse(t.payee, Unknown)))
        pfcPrimary == plaidMeta.primary
        pfcDetailed == plaidMeta.detailed
        has(x) == x # Undefined /\ x # <<>>
        pfc == IF has(pfcPrimary) \/ has(pfcDetailed)
               THEN Nullish(pfcPrimary, <<>>)
                    \o (IF has(pfcPrimary) /\ has(pfcDetailed) THEN <<" ", ">", " ">> ELSE <<>>)
                    \o Nullish(pfcDetailed, <<>>)
               ELSE Unknown
        channel == OrElse(plaidMeta.payment_channel, Unknown)
        counterparties == plaidMeta.counterparties
        allCounterparties ==
            join([i \in 1..Len(counterparties) |->
                    counterparties[i].name \o <<" ", "(">> \o counterparties[i].type
                        \o <<",", " ">> \o counterparties[i].confidence_level \o <<")">>],
                 <<";", " ">>)
        transactionType == OrElse(plaidMeta.transaction_type, <<>>)
        pfcConfidence == OrElse(plaidMeta.confidence_level, <<>>)
        catId == OrElse(plaidMeta.category_id, <<>>)
        pending == IF plaidMeta.pending = "true" THEN <<"t", "r", "u", "e">>
                   ELSE IF plaidMeta.pending = "false" THEN <<"f", "a", "l", "s", "e">> ELSE <<"u", "n", "k", "n", "o", "w", "n">>
    IN join(SelectSeq(
             <<<<"P", "l", "e", "a", "s", "e", " ", "c", "a", "t", "e", "g", "o", "r", "i", "z", "e", " ", "t", "h", "i", "s", " ", "t", "r", "a", "n", "s", "a", "c", "t", "i", "o", "n", ":">>,
               <<>>,
               <<"-", " ", "P", "a", "y", "e", "e", ":", " ">> \o Nullish(t.payee, Unknown),
               <<"-", " ", "M", "e", "r", "c", "h", "a", "n", "t", ":", " ">> \o merchant,
               <<"-", " ", "A", "m", "o", "u", "n", "t", ":", " ">> \o t.amount,
               <<"-", " ", "C", "u", "r", "r", "e", "n", "c", "y", ":", " ">>
                   \o Nullish(t.currency, Nullish(plaidMeta.iso_currency_code, <<>>)),
               <<"-", " ", "D", "a", "t", "e", ":", " ">> \o t.date,
               <<"-", " ", "N", "o", "t", "e", "s", ":", " ">> \o Nullish(t.notes, <<>>),
               <<"-", " ", "P", "l", "a", "i", "d", " ", "C", "a", "t", "e", "g", "o", "r", "y", ":", " ">> \o plaidCategory
                   \o (IF catId # <<>> THEN <<" ", "(", "#">> \o catId \o <<")">> ELSE <<>>),
               <<"-", " ", "P", "e", "r", "s", "o", "n", "a", "l", " ", "F", "i", "n", "a", "n", "c", "e", " ", "C", "a", "t", "e", "g", "o", "r", "y", ":", " ">>
                   \o pfc
                   \o (IF pfcConfidence # <<>>
                       THEN <<" ", "(">> \o pfcConfidence \o <<" ", "c", "o", "n", "f", "i", "d", "e", "n", "c", "e", ")">>
                       ELSE <<>>),
               <<"-", " ", "P", "a", "y", "m", "e", "n", "t", " ", "C", "h", "a", "n", "n", "e", "l", ":", " ">> \o channel,
               IF transactionType # <<>>
               THEN <<"-", " ", "T", "r", "a", "n", "s", "a", "c", "t", "i", "o", "n", " ", "T", "y", "p", "e", ":", " ">> \o transactionType
               ELSE <<>>,
               IF allCounterparties # <<>>
               THEN (IF Len(counterparties) = 1
                     THEN <<"-", " ", "C", "o", "u", "n", "t", "e", "r", "p", "a", "r", "t", "y", ":", " ">>
                     ELSE <<"-", " ", "C", "o", "u", "n", "t", "e", "r", "p", "a", "r", "t", "i", "e", "s", ":", " ">>) \o allCounterparties
               ELSE <<>>,
               <<"-", " ", "L", "o", "c", "a", "t", "i", "o", "n", ":", " ">> \o location,
               <<"-", " ", "P", "e", "n", "d", "i", "n", "g", ":", " ">> \o pending>>,
             LAMBDA line : line # <<>>),
            NL)

\* ------------------------------------------------------------------------
\* The confidence badge of a suggestion row (promptUserForCategory).  A
\* confidence v stands for the number v / 1000; norm is kept in units of
\* 1 / 100000 so that the division by 100 stays exact.

\* rawConf > 1 ? rawConf / 100 : rawConf
normConf(c) == IF c.v > 1000 THEN c.v ELSE c.v * 100

\* variant: the percentage without the clamp to [0, 1]
confPctUnclamped(c) == (normConf(c) + 500) \div 1000

\* Math.round(Math.max(0, Math.min(1, norm)) * 100)
confPct(c) ==
    Bind(normConf(c), LAMBDA n :
        Bind(IF n < 0 THEN 0 ELSE IF n > 100000 THEN 100000 ELSE n,
             LAMBDA clamped : (clamped + 500) \div 1000))

\* pct >= 80 ? "high" : pct >= 50 ? "med" : "low"
confLevel(c) ==
    Bind(confPct(c), LAMBDA p : IF p >= 80 THEN "high" ELSE IF p >= 50 THEN "med" ELSE "low")

\* the badge appended to the row, if any
confBadge(c) ==
    IF c.isNum /\ normConf(c) >= 0
    THEN [shown |-> TRUE, pct |-> confPct(c), level |-> confLevel(c)]
    ELSE [shown |-> FALSE, pct |-> 0, level |-> ""]

\* ------------------------------------------------------------------------
\* The state of the program as one record, and the synchronous pieces of code
\* as functions from state to state

Cur ==
    [cancelled |-> cancelled, pc |-> pc, runBtnDisabled |-> runBtnDisabled,
     cancelBtnDisabled |-> cancelBtnDisabled, cancelListeners |-> cancelListeners,
     categories |-> categories, txs |-> txs, idx |-> idx, done |-> done, bar |-> bar,
     modalOpen |-> modalOpen, loadingShown |-> loadingShown,
     saveDisabled |-> saveDisabled, errorShown |-> errorShown,
     selectOptions |-> selectOptions, selectValue |-> selectValue,
     suggRows |-> suggRows, gateListeners |-> gateListeners, chosenId |-> chosenId,
     content |-> content,
     log |-> log, ledger |-> ledger, trace |-> trace, runs |-> runs, probe |-> probe]

Becomes(s) ==
    /\ cancelled' = s.cancelled
    /\ pc' = s.pc
    /\ runBtnDisabled' = s.runBtnDisabled
    /\ cancelBtnDisabled' = s.cancelBtnDisabled
    /\ cancelListeners' = s.cancelListeners
    /\ categories' = s.categories
    /\ txs' = s.txs
    /\ idx' = s.idx
    /\ done' = s.done
    /\ bar' = s.bar
    /\ modalOpen' = s.modalOpen
    /\ loadingShown' = s.loadingShown
    /\ saveDisabled' = s.saveDisabled
    /\ errorShown' = s.errorShown
    /\ selectOptions' = s.selectOptions
    /\ selectValue' = s.selectValue
    /\ suggRows' = s.suggRows
    /\ gateListeners' = s.gateListeners
    /\ chosenId' = s.chosenId
    /\ content' = s.content
    /\ log' = s.log
    /\ ledger' = s.ledger
    /\ trace' = s.trace
    /\ runs' = s.runs
    /\ probe' = s.probe

\* the step of the program that leads from the current state to state(Cur)
Step(state(_)) == \E s \in {state(Cur)} : Becomes(s)

\* id of the transaction the loop is at, 0 outside the loop
TxOf(s) == IF s.idx >= 1 /\ s.idx <= Len(s.txs) THEN s.txs[s.idx].id ELSE 0

\* log(msg, cls): one line of #log
logLine(s0, cls, msg) ==
    Bind(s0, LAMBDA s :
        [s EXCEPT !.log = Append(@, [cls |-> cls, msg |-> msg, tx |-> TxOf(s)])])

\* history only: record what the run did
note(s0, ev, id, what) ==
    Bind(s0, LAMBDA s :
        [s EXCEPT !.trace = Append(@, [ev |-> ev, tx |-> TxOf(s), id |-> id,
                                       what |-> what, at |-> s.pc,
                                       sel |-> s.selectValue])])

closeModal(s) == [s EXCEPT !.modalOpen = FALSE, !.loadingShown = FALSE]

\* setBar((done / txs.length) * 100), in whole percent
setBar(s0) ==
    Bind(s0, LAMBDA s :
        LET pct == (s.done * 100) \div Len(s.txs)
        IN [s EXCEPT !.bar = IF pct > 100 THEN 100 ELSE IF pct < 0 THEN 0 ELSE pct])

\* done++; setBar(...)
countDone(s) == setBar([s EXCEPT !.done = @ + 1])

\* variant: the finally block clears the cancellation flag
runFinallyResetsFlag(s) ==
    [s EXCEPT !.cancelBtnDisabled = TRUE, !.cancelListeners = 0,
              !.runBtnDisabled = FALSE, !.pc = "idle", !.idx = 0,
              !.cancelled = FALSE]

\* the finally block of run() and of the #runBtn click handler
runFinally(s) ==
    [s EXCEPT !.cancelBtnDisabled = TRUE, !.cancelListeners = 0,
              !.runBtnDisabled = FALSE, !.pc = "idle", !.idx = 0]

\* after the for loop
afterLoop(s0) ==
    Bind(s0, LAMBDA s :
        runFinally(IF ~s.cancelled THEN logLine(s, "", "Finished") ELSE s))

\* promptUserForCategory up to the creation of the promise
promptUserForCategory(s0, suggestions0) ==
    Bind(<<s0, suggestions0>>, LAMBDA a :
        LET s == a[1]
            suggestions == a[2]
            rows == [i \in 1..Len(suggestions) |->
                        [name |-> suggestions[i].name,
                         id |-> matchCategoryId(suggestions[i].name, s.categories),
                         confidence |-> suggestions[i].confidence,
                         badge |-> confBadge(suggestions[i].confidence)]]
            preId == IF Len(suggestions) > 0 /\ suggestions[1].name # <<>>
                     THEN matchCategoryId(suggestions[1].name, s.categories)
                     ELSE NULL
            s1 == [s EXCEPT !.suggRows = rows,
                            !.selectValue = IF Truthy(preId)
                                            THEN setSelectValue(s.selectOptions,
                                                                NumberToString(preId))
                                            ELSE @]
            s2 == note(s1, "gate", Len(suggestions), IF s.errorShown THEN "error" ELSE "ok")
        IN [s2 EXCEPT !.gateListeners = TRUE, !.pc = "awaiting"])

\* the catch block of promptUserForCategoryWithLoading
suggestionError(s0) ==
    Bind(s0, LAMBDA s :
        promptUserForCategory(
            logLine([s EXCEPT !.loadingShown = FALSE, !.errorShown = TRUE,
                              !.suggRows = <<>>,
                              !.selectOptions = optionValues(s.categories),
                              !.selectValue = <<>>,
                              !.saveDisabled = TRUE],
                    "err", "Error getting AI suggestions"),
            <<>>))

\* variant: populating the select sorts the category list in place
promptUserForCategoryWithLoadingSortsInPlace(s0) ==
    Bind(s0, LAMBDA s :
        Bind(note([s EXCEPT !.errorShown = FALSE, !.saveDisabled = FALSE,
                            !.suggRows = <<>>,
                            !.categories = sortByName(s.categories),
                            !.selectOptions = optionValues(s.categories),
                            !.selectValue = <<>>,
                            !.content = <<>>,
                            !.modalOpen = TRUE, !.loadingShown = TRUE],
                  "prompt", 0, ""),
             LAMBDA s2 :
                IF s2.cancelled
                THEN suggestionError(s2)
                ELSE [note(s2, "suggestCall", 0, "") EXCEPT !.pc = "suggesting"]))

\* promptUserForCategoryWithLoading up to the model call
promptUserForCategoryWithLoading(s0) ==
    Bind(s0, LAMBDA s :
        Bind(note([s EXCEPT !.errorShown = FALSE, !.saveDisabled = FALSE,
                            !.suggRows = <<>>,
                            !.selectOptions = optionValues(s.categories),
                            !.selectValue = <<>>,
                            !.content = <<>>,
                            !.modalOpen = TRUE, !.loadingShown = TRUE],
                  "prompt", 0, ""),
             LAMBDA s2 :
                IF s2.cancelled
                THEN suggestionError(s2)
                ELSE [note(s2, "suggestCall", 0, "") EXCEPT !.pc = "suggesting"]))

\* the for loop from the top of the iteration at position i to its first await
iterate(s0, i) ==
    Bind([s0 EXCEPT !.idx = i], LAMBDA s :
        IF i > Len(s.txs) THEN afterLoop(s)
        ELSE IF s.cancelled
        THEN afterLoop(logLine(s, "warn", "Cancelled by user"))
        ELSE promptUserForCategoryWithLoading(logLine(s, "", "Suggesting category")))

\* variant: the loop body without the cancellation checkpoint after the gate
afterPromptNoCheckpoint(s0, chosen) ==
    Bind([s0 EXCEPT !.content = <<>>], LAMBDA s :
        IF ~Truthy(chosen)
        THEN iterate(countDone(countDone(note(closeModal(logLine(s, "warn", "Skipped")),
                                              "outcome", 0, "skipped"))),
                     s.idx + 1)
        ELSE [note(s, "commitCall", chosen, "") EXCEPT !.pc = "committing",
                                                       !.chosenId = chosen])

\* variant: the commit is issued and the loop goes on without awaiting it
afterPromptFireAndForget(s0, chosen) ==
    Bind([s0 EXCEPT !.content = <<>>], LAMBDA s :
        IF s.cancelled
        THEN afterLoop(countDone(note(closeModal(logLine(s, "warn", "Cancelled by user")),
                                      "outcome", 0, "cancelled")))
        ELSE IF ~Truthy(chosen)
        THEN iterate(countDone(countDone(note(closeModal(logLine(s, "warn", "Skipped")),
                                              "outcome", 0, "skipped"))),
                     s.idx + 1)
        ELSE iterate(countDone(note(closeModal(logLine(note(s, "commitCall", chosen, ""),
                                                       "ok", "Updated")),
                                    "outcome", chosen, "committed")),
                     s.idx + 1))

\* variant: a skipped transaction leaves no log line
afterPromptSkipUnlogged(s0, chosen) ==
    Bind([s0 EXCEPT !.content = <<>>], LAMBDA s :
        IF s.cancelled
        THEN afterLoop(countDone(note(closeModal(logLine(s, "warn", "Cancelled by user")),
                                      "outcome", 0, "cancelled")))
        ELSE IF ~Truthy(chosen)
        THEN iterate(countDone(countDone(note(closeModal(s), "outcome", 0, "skipped"))),
                     s.idx + 1)
        ELSE [note(s, "commitCall", chosen, "") EXCEPT !.pc = "committing",
                                                       !.chosenId = chosen])

\* the loop body after promptUserForCategoryWithLoading returned chosen
afterPrompt(s0, chosen) ==
    Bind([s0 EXCEPT !.content = <<>>], LAMBDA s :
        IF s.cancelled
        THEN afterLoop(countDone(note(closeModal(logLine(s, "warn", "Cancelled by user")),
                                      "outcome", 0, "cancelled")))
        ELSE IF ~Truthy(chosen)
        THEN iterate(countDone(countDone(note(closeModal(logLine(s, "warn", "Skipped")),
                                              "outcome", 0, "skipped"))),
                     s.idx + 1)
        ELSE [note(s, "commitCall", chosen, "") EXCEPT !.pc = "committing",
                                                       !.chosenId = chosen])

\* ------------------------------------------------------------------------
\* The approval gate: the handlers registered by promptUserForCategory

\* variant: the handlers stay attached
cleanupKeepsListeners(s) == s

cleanup(s) == [s EXCEPT !.gateListeners = FALSE]

\* resolve(value): settles the promise if it is still pending, and run() then
\* continues in the same task
resolve(s0, value, how) ==
    Bind(s0, LAMBDA s :
        IF s.pc = "awaiting"
        THEN afterPrompt(note(s, "decision", value, how), value)
        ELSE s)

onSave(s0) ==
    Bind(s0, LAMBDA s :
        LET val == trim(s.selectValue)
        IN IF val # <<>>
           THEN resolve(cleanup([s EXCEPT !.loadingShown = TRUE]), StringToNumber(val), "save")
           ELSE resolve(cleanup(s), NULL, "save"))

\* variant: skip resolves with the selected value
onSkipKeepsSelection(s0) ==
    Bind(s0, LAMBDA s :
        LET val == trim(s.selectValue)
        IN resolve(cleanup(s), IF val # <<>> THEN StringToNumber(val) ELSE NULL, "skip"))

onSkip(s) == resolve(cleanup(s), NULL, "skip")

onCancel(s, how) ==
    resolve(cleanup(note([s EXCEPT !.cancelled = TRUE], "cancelSet", 0, how)), NULL, "cancel")

\* row click / Enter on a suggestion row
pick(s0, i) ==
    Bind(s0, LAMBDA s :
        IF Truthy(s.suggRows[i].id)
        THEN [s EXCEPT !.selectValue = setSelectValue(s.selectOptions,
                                                      NumberToString(s.suggRows[i].id))]
        ELSE s)

\* onGlobalCancel of run(), registered with { once: true }
onGlobalCancel(s0) ==
    Bind([s0 EXCEPT !.cancelListeners = 0], LAMBDA s1 :
        IF ~s1.cancelled
        THEN closeModal(logLine(note([s1 EXCEPT !.cancelled = TRUE],
                                     "cancelSet", 0, "global"),
                                "warn", "Cancelling"))
        ELSE s1)

\* ------------------------------------------------------------------------
\* chooseCategoryOptions and promptUserForCategoryWithLoading after the model call

suggestionsReturned(s0, text) ==
    Bind(<<[s0 EXCEPT !.content = text], parseResponse(text)>>, LAMBDA a :
        LET s1 == a[1]
            parsed == a[2]
        IN IF s1.cancelled THEN suggestionError(note(s1, "response", 0, "cancelled"))
           ELSE IF parsed.threw THEN suggestionError(note(s1, "response", 0, "threw"))
           ELSE promptUserForCategory(
                    [note(s1, "response", Len(parsed.suggestions), "parsed")
                         EXCEPT !.loadingShown = FALSE],
                    validateCategorySuggestions(parsed.suggestions, s1.categories)))

\* variant: a failed suggestion call is repeated once
suggestionsFailedRetries(s0) ==
    Bind(s0, LAMBDA s :
        IF \E k \in DOMAIN s.trace :
              /\ s.trace[k].ev = "response"
              /\ s.trace[k].tx = TxOf(s)
        THEN suggestionError(note(s, "response", 0, "failed"))
        ELSE note(note(s, "response", 0, "failed"), "suggestCall", 0, ""))

\* variant: a failed suggestion call reaches the outer catch of run()
suggestionsFailedAborts(s) ==
    runFinally(logLine(note(s, "response", 0, "failed"), "err", "Fatal error"))

suggestionsFailed(s) == suggestionError(note(s, "response", 0, "failed"))

\* ------------------------------------------------------------------------
\* run()

\* getCategories: (data.categories || []).filter(c => !c.is_group && !c.archived)
filterCategories(list) == SelectSeq(list, LAMBDA c : ~c.is_group /\ ~c.archived)

\* variant: group entries are kept
filterTransactionsKeepsGroups(list) == SelectSeq(list, LAMBDA t : t.category_id = NULL)

\* getTransactions: (data.transactions || []).filter(t => !t.is_group && t.category_id === null)
filterTransactions(list) == SelectSeq(list, LAMBDA t : ~t.is_group /\ t.category_id = NULL)

\* variant: a configuration error leaves the cancel button enabled
runStartLeavesCancelEnabled(s0, tokenOk, keyOk, modelOk) ==
    Bind([s0 EXCEPT !.runBtnDisabled = TRUE, !.log = <<>>, !.bar = 0,
                    !.cancelled = FALSE, !.cancelBtnDisabled = FALSE,
                    !.cancelListeners = @ + 1,
                    !.categories = <<>>, !.txs = <<>>, !.idx = 0, !.done = 0,
                    !.trace = <<>>, !.runs = @ + 1],
         LAMBDA s :
            LET missing(msg) == [logLine(s, "err", msg) EXCEPT !.runBtnDisabled = FALSE]
            IN IF ~tokenOk THEN missing("Missing Lunch Money token")
               ELSE IF ~keyOk THEN missing("Missing model API key")
               ELSE IF ~modelOk THEN missing("Please select a model")
               ELSE [logLine(s, "", "Fetching categories") EXCEPT !.pc = "fetchCats"])

\* variant: the configuration is reported but the category fetch starts anyway
runStartFetchesAnyway(s0, tokenOk, keyOk, modelOk) ==
    Bind([s0 EXCEPT !.runBtnDisabled = TRUE, !.log = <<>>, !.bar = 0,
                    !.cancelled = FALSE, !.cancelBtnDisabled = FALSE,
                    !.cancelListeners = @ + 1,
                    !.categories = <<>>, !.txs = <<>>, !.idx = 0, !.done = 0,
                    !.trace = <<>>, !.runs = @ + 1],
         LAMBDA s :
            LET missing(msg) == [logLine(s, "err", msg) EXCEPT !.pc = "fetchCats"]
            IN IF ~tokenOk THEN missing("Missing Lunch Money token")
               ELSE IF ~keyOk THEN missing("Missing model API key")
               ELSE IF ~modelOk THEN missing("Please select a model")
               ELSE [logLine(s, "", "Fetching categories") EXCEPT !.pc = "fetchCats"])

\* run() from its first line to the first await
runStart(s0, tokenOk, keyOk, modelOk) ==
    Bind([s0 EXCEPT !.runBtnDisabled = TRUE, !.log = <<>>, !.bar = 0,
                    !.cancelled = FALSE, !.cancelBtnDisabled = FALSE,
                    !.cancelListeners = @ + 1,
                    !.categories = <<>>, !.txs = <<>>, !.idx = 0, !.done = 0,
                    !.trace = <<>>, !.runs = @ + 1],
         LAMBDA s :
            LET missing(msg) == [logLine(s, "err", msg) EXCEPT !.cancelBtnDisabled = TRUE,
                                                               !.runBtnDisabled = FALSE]
            IN IF ~tokenOk THEN missing("Missing Lunch Money token")
               ELSE IF ~keyOk THEN missing("Missing model API key")
               ELSE IF ~modelOk THEN missing("Please select a model")
               ELSE [logLine(s, "", "Fetching categories") EXCEPT !.pc = "fetchCats"])

categoriesFetched(s0, list) ==
    Bind([s0 EXCEPT !.categories = filterCategories(list)], LAMBDA s1 :
        IF Len(s1.categories) = 0
        THEN runFinally(logLine(s1, "err", "No categories found"))
        ELSE [logLine(logLine(s1, "ok", "Found active categories"),
                      "", "Fetching uncategorized transactions")
                 EXCEPT !.pc = "fetchTxs"])

transactionsFetched(s0, list) ==
    Bind([s0 EXCEPT !.txs = filterTransactions(list)], LAMBDA s1 :
        IF Len(s1.txs) = 0
        THEN runFinally(logLine(s1, "warn", "No uncategorized transactions found"))
        ELSE iterate([logLine(s1, "", "Found uncategorized transactions") EXCEPT !.done = 0],
                     1))

\* the outer catch of run()
fatalError(s) == runFinally(logLine(s, "err", "Fatal error"))

commitSucceeded(s0) ==
    Bind(s0, LAMBDA s :
        LET s1 == [s EXCEPT !.ledger[TxOf(s)] = s.chosenId]
            s2 == closeModal(logLine(note(s1, "commitDone", s.chosenId, "ok"),
                                     "ok", "Updated"))
        IN iterate(countDone(note([s2 EXCEPT !.chosenId = NULL],
                                  "outcome", s.chosenId, "committed")),
                   s.idx + 1))

\* variant: a failed commit reaches the outer catch of run()
commitFailedAborts(s) ==
    fatalError(closeModal(note(s, "commitDone", s.chosenId, "failed")))

\* variant: a failed commit leaves no log line
commitFailedSilent(s0) ==
    Bind(s0, LAMBDA s :
        LET s1 == closeModal(note(s, "commitDone", s.chosenId, "failed"))
        IN iterate(countDone(note([s1 EXCEPT !.chosenId = NULL],
                                  "outcome", s.chosenId, "errored")),
                   s.idx + 1))

commitFailed(s0) ==
    Bind(s0, LAMBDA s :
        LET s1 == closeModal(note(s, "commitDone", s.chosenId, "failed"))
            s2 == logLine(s1, "err", "Error on")
        IN iterate(countDone(note([s2 EXCEPT !.chosenId = NULL],
                                  "outcome", s.chosenId, "errored")),
                   s.idx + 1))

\* ------------------------------------------------------------------------
\* Initial state and actions

NoProbe == [fn |-> "none"]

InitProgram ==
    /\ cancelled = FALSE
    /\ pc = "idle"
    /\ runBtnDisabled = FALSE
    /\ cancelBtnDisabled = TRUE
    /\ cancelListeners = 0
    /\ categories = <<>>
    /\ txs = <<>>
    /\ idx = 0
    /\ done = 0
    /\ bar = 0
    /\ modalOpen = FALSE
    /\ loadingShown = FALSE
    /\ saveDisabled = FALSE
    /\ errorShown = FALSE
    /\ selectOptions = <<>>
    /\ selectValue = <<>>
    /\ suggRows = <<>>
    /\ gateListeners = FALSE
    /\ chosenId = NULL
    /\ content = <<>>
    /\ log = <<>>
    /\ ledger = [t \in TxIds |-> NULL]
    /\ trace = <<>>
    /\ runs = 0

Init == InitProgram /\ probe = NoProbe

\* click on #runBtn
ClickRun ==
    /\ ~runBtnDisabled
    /\ runs < MaxRuns
    /\ \E tokenOk, keyOk, modelOk \in BOOLEAN :
          Step(LAMBDA s : runStart(s, tokenOk, keyOk, modelOk))

FetchCategoriesOk ==
    /\ pc = "fetchCats"
    /\ \E list \in CategoriesResponses : Step(LAMBDA s : categoriesFetched(s, list))

FetchCategoriesFail ==
    /\ pc = "fetchCats"
    /\ Step(fatalError)

FetchTransactionsOk ==
    /\ pc = "fetchTxs"
    /\ Step(LAMBDA s : transactionsFetched(s, ServerTransactions(ledger)))

FetchTransactionsFail ==
    /\ pc = "fetchTxs"
    /\ Step(fatalError)

SuggestReturn ==
    /\ pc = "suggesting"
    /\ \E text \in Responses : Step(LAMBDA s : suggestionsReturned(s, text))

SuggestFail ==
    /\ pc = "suggesting"
    /\ Step(suggestionsFailed)

CommitOk ==
    /\ pc = "committing"
    /\ Step(commitSucceeded)

CommitFail ==
    /\ pc = "committing"
    /\ Step(commitFailed)

\* user events; an event nobody listens to changes nothing
ClickSave ==
    IF gateListeners /\ ~saveDisabled THEN Step(onSave) ELSE UNCHANGED vars

ClickSkip ==
    IF gateListeners THEN Step(onSkip) ELSE UNCHANGED vars

ClickCancelModal ==
    IF gateListeners THEN Step(LAMBDA s : onCancel(s, "cancel")) ELSE UNCHANGED vars

KeyEscape ==
    IF gateListeners THEN Step(LAMBDA s : onCancel(s, "escape")) ELSE UNCHANGED vars

KeyEnter ==
    IF gateListeners THEN Step(onSave) ELSE UNCHANGED vars

ClickGlobalCancel ==
    IF ~cancelBtnDisabled /\ cancelListeners > 0
    THEN Step(onGlobalCancel)
    ELSE UNCHANGED vars

SelectChange ==
    /\ pc = "awaiting"
    /\ \E v \in {selectOptions[i] : i \in 1..Len(selectOptions)} \cup {<<>>} :
          /\ v # selectValue
          /\ Step(LAMBDA s : [s EXCEPT !.selectValue = v])

PickSuggestion ==
    /\ pc = "awaiting"
    /\ \E i \in 1..Len(suggRows) : Step(LAMBDA s : pick(s, i))

Network ==
    \/ FetchCategoriesOk \/ FetchCategoriesFail
    \/ FetchTransactionsOk \/ FetchTransactionsFail
    \/ SuggestReturn \/ SuggestFail
    \/ CommitOk \/ CommitFail

Next ==
    \/ ClickRun
    \/ FetchCategoriesOk
    \/ FetchCategoriesFail
    \/ FetchTransactionsOk
    \/ FetchTransactionsFail
    \/ SuggestReturn
    \/ SuggestFail
    \/ CommitOk
    \/ CommitFail
    \/ ClickSave
    \/ ClickSkip
    \/ ClickCancelModal
    \/ KeyEscape
    \/ KeyEnter
    \/ ClickGlobalCancel
    \/ SelectChange
    \/ PickSuggestion

Spec == Init /\ [][Next]_vars

\* every network call eventually resolves; the user is never obliged to act
LiveSpec == Spec /\ WF_vars(Network)

\* The same program against a ledger whose category ids start at 0
ZeroIdCategories == <<Category(0, Groceries), Category(2, GasTransportation)>>

FetchCategoriesZeroId ==
    /\ pc = "fetchCats"
    /\ Step(LAMBDA s : categoriesFetched(s, ZeroIdCategories))

NextZeroId ==
    \/ Next
    \/ FetchCategoriesZeroId

ZeroIdSpec == Init /\ [][NextZeroId]_vars


\* ------------------------------------------------------------------------
\* The pure functions on their own: Init draws the inputs, the actions apply
\* the function

RECURSIVE SeqsUpTo(_, _)
SeqsUpTo(S, n) ==
    IF n = 0 THEN {<<>>}
    ELSE LET shorter == SeqsUpTo(S, n - 1)
         IN shorter \cup {Append(q, x) : q \in {r \in shorter : Len(r) = n - 1}, x \in S}

CategoryNameSamples == {Gas, GasLower, GasTransportation, Groceries, GroceriesLower, Zzz}
QuerySamples == CategoryNameSamples \cup {Empty, <<"G">>}
SuggestionNameSamples == {Gas, GasTransportation, Groceries, GroceriesLower}

\* category lists with unique ids, ascending or descending along the list
CategoryLists(ascendingOnly) ==
    LET nameLists == SeqsUpTo(CategoryNameSamples, MaxCats)
        asc(names) == [i \in 1..Len(names) |-> Category(i, names[i])]
        desc(names) == [i \in 1..Len(names) |-> Category(Len(names) + 1 - i, names[i])]
    IN {asc(names) : names \in nameLists}
       \cup (IF ascendingOnly THEN {} ELSE {desc(names) : names \in nameLists})

\* suggestion lists; the confidence tells equal names at different positions apart
SuggestionLists ==
    {[i \in 1..Len(names) |-> [name |-> names[i], confidence |-> [isNum |-> TRUE, v |-> i]]] :
        names \in SeqsUpTo(SuggestionNameSamples, MaxSuggestions)}

FourEntries ==
    <<RawEntry(Empty, TRUE, 990), RawEntry(GroceriesPadded, TRUE, 900),
      RawEntry(Gas, FALSE, 0), RawEntry(Zzz, TRUE, 85000), RawEntry(GasLower, TRUE, -1000)>>

TokenSamples ==
    {Tok("word"), Tok("sp"), Tok("fence"), Tok("json"), Tok("lb"), Tok("rb"),
     Tok("scalar"), Tok("suggNA"), SuggTok(<<RawEntry(Groceries, TRUE, 900)>>),
     SuggTok(FourEntries)}

ResponseSamples ==
    SeqsUpTo(TokenSamples, MaxTokens)
    \cup {FencedGroceries, NotJsonAtAll, NoiseAroundEmpty, BrokenBraces, MixedNames}

MatchProbes ==
    {[fn |-> "match", name |-> n, cats |-> c, applied |-> FALSE, out |-> NULL] :
        n \in QuerySamples, c \in CategoryLists(FALSE)}

ValidateProbes ==
    {[fn |-> "validate", suggestions |-> sg, cats |-> c, applied |-> FALSE, out |-> <<>>] :
        sg \in SuggestionLists, c \in CategoryLists(TRUE)}

ParseProbes ==
    {[fn |-> "parse", text |-> t, applied |-> FALSE,
      out |-> [threw |-> FALSE, suggestions |-> <<>>]] : t \in ResponseSamples}

\* confidences as a model may return them, in thousandths
ConfidenceSamples ==
    {-1000, -1, 0, 4, 5, 450, 494, 495, 499, 500, 794, 795, 799, 800, 850, 1000,
     1001, 1500, 45000, 49499, 49500, 79499, 79500, 79900, 80000, 85000, 100000,
     150000}

ConfidenceProbes ==
    {[fn |-> "confidence", raw |-> [isNum |-> b, v |-> v], applied |-> FALSE,
      out |-> [shown |-> FALSE, pct |-> 0, level |-> ""]] :
        b \in BOOLEAN, v \in ConfidenceSamples}

PromptCategories ==
    {[id |-> 0, name |-> n, description |-> d] :
        n \in {Gas, GasTransportation, Groceries}, d \in {Empty, GroceriesPadded}}

\* category lists with descriptions and unique ids
PromptProbes ==
    {[fn |-> "prompt",
      cats |-> [i \in 1..Len(q) |-> [q[i] EXCEPT !.id = 10 * i + 1]],
      applied |-> FALSE, out |-> <<>>] : q \in SeqsUpTo(PromptCategories, MaxCats)}

\* metadata with every member present
FullPlaidMeta ==
    [category |-> <<<<"F", "o", "o", "d">>, <<"S", "h", "o", "p", "s">>>>, hasCategory |-> TRUE,
     city |-> <<"O", "s", "l", "o">>, region |-> <<"N", "O">>,
     merchant_name |-> <<"R", "e", "m", "a">>, name |-> <<"R", "E", "M", "A", " ", "1", "0", "0", "0">>,
     primary |-> <<"F", "O", "O", "D">>, detailed |-> <<"G", "R", "O", "C", "E", "R", "I", "E", "S">>,
     payment_channel |-> <<"i", "n", " ", "s", "t", "o", "r", "e">>,
     counterparties |-> <<[name |-> <<"R", "e", "m", "a">>, type |-> <<"m", "e", "r", "c", "h", "a", "n", "t">>, confidence_level |-> <<"H", "I", "G", "H">>]>>,
     transaction_type |-> <<"p", "l", "a", "c", "e">>, confidence_level |-> <<"H", "I", "G", "H">>,
     category_id |-> <<"1", "9", "0", "4", "7", "0", "0", "0">>, pending |-> "false", iso_currency_code |-> <<"N", "O", "K">>]

\* metadata whose members are present but empty
BlankPlaidMeta ==
    [category |-> <<>>, hasCategory |-> TRUE, city |-> <<>>, region |-> <<>>,
     merchant_name |-> <<>>, name |-> <<>>, primary |-> <<>>, detailed |-> <<>>,
     payment_channel |-> <<>>, counterparties |-> <<>>, transaction_type |-> <<>>,
     confidence_level |-> <<>>, category_id |-> <<>>, pending |-> "unknown",
     iso_currency_code |-> Undefined]

TransactionSamples ==
    {[payee |-> p, currency |-> cur, notes |-> n, amount |-> <<"1", "2", ".", "5">>,
      date |-> <<"2", "0", "2", "5", "-", "0", "1", "-", "3", "1">>, plaid_metadata |-> m] :
        p \in {Zzz, <<>>}, cur \in {Undefined, <<"u", "s", "d">>}, n \in {Undefined, <<>>, Gas},
        m \in {NoPlaidMeta, BlankPlaidMeta, FullPlaidMeta}}

TransactionProbes ==
    {[fn |-> "txprompt", t |-> t, applied |-> FALSE, out |-> <<>>] :
        t \in TransactionSamples}

FnInit ==
    /\ InitProgram
    /\ \/ probe \in MatchProbes
       \/ probe \in ValidateProbes
       \/ probe \in ParseProbes
       \/ probe \in ConfidenceProbes
       \/ probe \in PromptProbes
       \/ probe \in TransactionProbes

ProgramUnchanged ==
    UNCHANGED <<cancelled, pc, runBtnDisabled, cancelBtnDisabled, cancelListeners,
                categories, txs, idx, done, bar, modalOpen, loadingShown, saveDisabled,
                errorShown, selectOptions, selectValue, suggRows, gateListeners,
                chosenId, content, log, ledger, trace, runs>>

ApplyMatch ==
    /\ probe.fn = "match"
    /\ ~probe.applied
    /\ probe' = [probe EXCEPT !.applied = TRUE,
                              !.out = matchCategoryId(probe.name, probe.cats)]
    /\ ProgramUnchanged

ApplyValidate ==
    /\ probe.fn = "validate"
    /\ ~probe.applied
    /\ probe' = [probe EXCEPT !.applied = TRUE,
                              !.out = validateCategorySuggestions(probe.suggestions, probe.cats)]
    /\ ProgramUnchanged

ApplyParse ==
    /\ probe.fn = "parse"
    /\ ~probe.applied
    /\ probe' = [probe EXCEPT !.applied = TRUE, !.out = parseResponse(probe.text)]
    /\ ProgramUnchanged

ApplyConfidence ==
    /\ probe.fn = "confidence"
    /\ ~probe.applied
    /\ probe' = [probe EXCEPT !.applied = TRUE, !.out = confBadge(probe.raw)]
    /\ ProgramUnchanged

ApplyPrompt ==
    /\ probe.fn = "prompt"
    /\ ~probe.applied
    /\ probe' = [probe EXCEPT !.applied = TRUE, !.out = buildSystemPrompt(probe.cats)]
    /\ ProgramUnchanged

ApplyTransactionPrompt ==
    /\ probe.fn = "txprompt"
    /\ ~probe.applied
    /\ probe' = [probe EXCEPT !.applied = TRUE, !.out = buildTransactionPrompt(probe.t)]
    /\ ProgramUnchanged

FnNext ==
    \/ ApplyMatch
    \/ ApplyValidate
    \/ ApplyParse
    \/ ApplyConfidence
    \/ ApplyPrompt
    \/ ApplyTransactionPrompt

FnSpec == FnInit /\ [][FnNext]_vars


\* ------------------------------------------------------------------------
\* Properties

EventsOf(ev) == {k \in DOMAIN trace : trace[k].ev = ev}

\* C1: every ledger commit call for transaction t with category c directly
\* follows, in the same iteration, the resolution of t's approval gate by a save
\* (button or Enter) with the option of category c selected; a gate resolved by
\* skip or cancel, or never presented, is followed by no commit.
C1_CommitOnlyAfterSave ==
    /\ \A k \in EventsOf("commitCall") :
          /\ k > 2
          /\ trace[k - 1].ev = "decision"
          /\ trace[k - 1].what = "save"
          /\ trace[k - 1].tx = trace[k].tx
          /\ trace[k - 1].id = trace[k].id
          /\ trace[k - 1].sel = NumberToString(trace[k].id)
          /\ \E c \in 1..Len(categories) : categories[c].id = trace[k].id
          /\ \E g \in 1..(k - 2) :
                /\ trace[g].ev = "gate"
                /\ trace[g].tx = trace[k].tx
                /\ \A m \in (g + 1)..(k - 2) : trace[m].ev \notin {"prompt", "decision"}
    /\ pc = "committing" =>
          \E k \in EventsOf("commitCall") :
              /\ trace[k].tx = txs[idx].id
              /\ trace[k].id = chosenId
              /\ \A m \in (k + 1)..Len(trace) : trace[m].ev = "cancelSet"

C1_Witness ==
    /\ \E k \in EventsOf("commitDone") : trace[k].what = "ok" /\ ledger[trace[k].tx] = trace[k].id
    /\ \E k \in EventsOf("decision") : trace[k].what = "skip"

\* C2: once the cancellation flag is set during a run, the run eventually ends
\* (run button enabled again) when the network operations resolve, with no
\* further user decision.
C2_CancelEndsRun == (cancelled /\ pc # "idle") ~> (pc = "idle")

\* C3: when cancellation is signalled while the gate of transaction k awaits a
\* decision, nothing is done afterwards for a later transaction (no prompt, no
\* suggestion call, no gate) and no commit is issued any more.
C3_NothingAfterCancelInGate ==
    \A k \in EventsOf("cancelSet") :
        trace[k].at = "awaiting" =>
            \A m \in (k + 1)..Len(trace) :
                /\ trace[m].ev \in {"decision", "outcome", "cancelSet"}
                /\ trace[m].tx = trace[k].tx

C3_Witness ==
    /\ pc = "idle"
    /\ \E k \in EventsOf("cancelSet") :
          /\ trace[k].at = "awaiting"
          /\ trace[k].what = "global"
          /\ trace[k].tx = 2
          /\ trace[Len(trace)].ev = "outcome"
    /\ \E k \in EventsOf("commitDone") : trace[k].tx = 1 /\ trace[k].what = "ok"
    /\ ledger[1] # NULL

\* C4: absent cancellation the loop ends only on exhaustion: whatever failed
\* for a transaction (suggestion call, response parsing, commit), every
\* transaction the loop has passed, and every transaction once the run is over,
\* was presented to the approval gate.
Presented(t) == \E k \in EventsOf("gate") : trace[k].tx = t

C5_ProgressCountsFinished ==
    Len(txs) > 0 =>
        /\ done = Cardinality(EventsOf("outcome"))
        /\ 0 <= done
        /\ done <= Len(txs)

\* C6: a model output that neither parse strategy recovers gives the outcome of
\* a response with zero suggestions: the gate is presented without error
\* annotation and without an error-level log line.
Unrecoverable(text) ==
    LET jsonText == trimTok(FencedInterior(trimTok(text)))
        opens == {i \in 1..Len(jsonText) : jsonText[i].kind = "lb"}
        closes == {i \in 1..Len(jsonText) : jsonText[i].kind = "rb"}
    IN /\ ~JSONparse(jsonText).ok
       /\ \/ opens = {}
          \/ closes = {}
          \/ \A i \in opens : \A j \in closes : j <= i
          \/ ~JSONparse(SubSeq(jsonText, Min(opens), Max(closes))).ok

C6_UnparseableIsEmpty ==
    (/\ pc = "awaiting"
     /\ EventsOf("response") # {}
     /\ LET r == CHOOSE k \in EventsOf("response") : \A k2 \in EventsOf("response") : k2 <= k
        IN trace[r].what \in {"threw", "parsed"}
     /\ Unrecoverable(content))
    => /\ ~errorShown
       /\ suggRows = <<>>
       /\ \A n \in DOMAIN log : ~(log[n].cls = "err" /\ log[n].tx = txs[idx].id)

\* C7: validateCategorySuggestions returns exactly the suggestions whose name
\* equals (case-sensitively) the name of some category, in their original order.
C7_ValidateIsExactFilter ==
    (probe.fn = "validate" /\ probe.applied) =>
        LET in == probe.suggestions
            names == {probe.cats[i].name : i \in 1..Len(probe.cats)}
            keep == {i \in 1..Len(in) : \E n \in names : n = in[i].name}
            nth(n) == CHOOSE i \in keep : Cardinality({j \in keep : j <= i}) = n
        IN /\ Len(probe.out) = Cardinality(keep)
           /\ \A n \in 1..Len(probe.out) : probe.out[n] = in[nth(n)]

C7_Witness ==
    /\ probe.fn = "validate"
    /\ probe.applied
    /\ probe.cats = <<Category(1, GasTransportation)>>
    /\ \E i \in 1..Len(probe.suggestions) : probe.suggestions[i].name = Gas
    /\ \E i \in 1..Len(probe.suggestions) : probe.suggestions[i].name = GasTransportation
    /\ Len(probe.out) = 1
    /\ probe.out[1].name = GasTransportation
    /\ matchCategoryId(Gas, probe.cats) = 1

\* C8: matchCategoryId returns the id of the first category of the best tier
\* that has a hit (1 equal, 2 equal ignoring case, 3 one lowercased name
\* contains the other), and none when no category hits at any tier.
Tier(name, c) ==
    IF c.name = name THEN 1
    ELSE IF toLowerCase(c.name) = toLowerCase(name) THEN 2
    ELSE IF \/ includes(toLowerCase(c.name), toLowerCase(name))
            \/ includes(toLowerCase(name), toLowerCase(c.name)) THEN 3
    ELSE 4

C8_MatchTiers ==
    (probe.fn = "match" /\ probe.applied) =>
        LET cats == probe.cats
            tiers == {Tier(probe.name, cats[i]) : i \in 1..Len(cats)} \cup {4}
            best == Min(tiers)
        IN IF best = 4 THEN probe.out = NULL
           ELSE \E i \in 1..Len(cats) :
                   /\ probe.out = cats[i].id
                   /\ Tier(probe.name, cats[i]) = best
                   /\ \A j \in 1..(i - 1) : Tier(probe.name, cats[j]) > best

C8_Witness ==
    /\ probe.fn = "match"
    /\ probe.applied
    /\ Len(probe.cats) = 3
    /\ Tier(probe.name, probe.cats[1]) = 3
    /\ Tier(probe.name, probe.cats[2]) = 2
    /\ Tier(probe.name, probe.cats[3]) = 1
    /\ probe.out = probe.cats[3].id

\* C9: a presentation of the gate is resolved at most once, by an event that
\* arrives while it awaits; the handlers are attached exactly while the gate
\* awaits, so a later event resolves nothing.
C9_OneDecisionPerGate ==
    /\ gateListeners <=> (pc = "awaiting")
    /\ \A k \in EventsOf("decision") :
          /\ trace[k].at = "awaiting"
          /\ \E g \in 1..(k - 1) :
                /\ trace[g].ev = "gate"
                /\ trace[g].tx = trace[k].tx
                /\ \A m \in (g + 1)..(k - 1) : trace[m].ev \notin {"decision", "gate"}
    /\ \A g1, g2 \in EventsOf("gate") : trace[g1].tx = trace[g2].tx => g1 = g2
    /\ \A k1, k2 \in EventsOf("decision") : trace[k1].tx = trace[k2].tx => k1 = k2

C9_Witness ==
    /\ pc = "suggesting"
    /\ ~gateListeners
    /\ idx = 2
    /\ \E k \in EventsOf("decision") : trace[k].tx = 1 /\ trace[k].what = "save"

\* C10: while the gate awaits, each cancel action (modal Cancel, Escape,
\* run-level Cancel) sets the flag and resolves the gate with Cancel in the
\* same step.
C10_CancelResolvesGate ==
    [][(pc = "awaiting" /\ ~cancelled /\ cancelled') =>
          /\ pc' # "awaiting"
          /\ ~gateListeners'
          /\ \E k \in (Len(trace) + 1)..Len(trace') :
                trace'[k].ev = "decision" /\ trace'[k].what = "cancel"]_vars

C12_CommitFailureContinues ==
    \A k \in EventsOf("commitDone") :
        trace[k].what = "failed" =>
            LET t == trace[k].tx
                j == CHOOSE j \in 1..Len(txs) : txs[j].id = t
                cancelBefore == \E m \in 1..(k - 1) : trace[m].ev = "cancelSet"
            IN /\ Cardinality({n \in DOMAIN log : /\ log[n].tx = t
                                                  /\ log[n].cls = "err"
                                                  /\ log[n].msg = "Error on"}) = 1
               /\ \A n \in DOMAIN log : log[n].tx = t => log[n].msg # "Updated"
               /\ ledger[t] = NULL
               /\ k < Len(trace)
               /\ trace[k + 1].ev = "outcome"
               /\ trace[k + 1].what = "errored"
               /\ IF cancelBefore \/ j = Len(txs)
                  THEN pc = "idle" /\ ~modalOpen /\ ~loadingShown
                  ELSE /\ k + 2 <= Len(trace)
                       /\ trace[k + 2].ev = "prompt"
                       /\ trace[k + 2].tx = txs[j + 1].id

C12_Witness ==
    /\ pc = "suggesting"
    /\ ~cancelled
    /\ idx = 2
    /\ modalOpen
    /\ \E k \in EventsOf("commitDone") : trace[k].what = "failed" /\ trace[k].tx = txs[1].id
    /\ \E n \in DOMAIN log : log[n].msg = "Error on" /\ log[n].tx = txs[1].id

\* C13: a run started with the ledger token, the model key or the model
\* selection missing ends at once: its log holds the configuration error
\* and nothing else, no fetch, model call or commit is pending or was
\* made, no gate is presented, and the ledger is as the run found it.
ConfigurationErrors ==
    {"Missing Lunch Money token", "Missing model API key", "Please select a model"}

C13_MissingConfigEndsRun ==
    /\ (log # <<>> /\ log[1].msg \in ConfigurationErrors) =>
          /\ Len(log) = 1
          /\ log[1].cls = "err"
          /\ pc = "idle"
          /\ ~runBtnDisabled
          /\ trace = <<>>
          /\ categories = <<>>
          /\ txs = <<>>
          /\ ~modalOpen
          /\ ~gateListeners
    /\ \A n \in DOMAIN log : n > 1 => log[n].msg \notin ConfigurationErrors

C13_Witness ==
    /\ runs = 2
    /\ log = <<[cls |-> "err", msg |-> "Please select a model", tx |-> 0]>>
    /\ pc = "idle"
    /\ \E t \in TxIds : ledger[t] # NULL

\* C14: when the checkpoint after the suggestion call sees the cancellation
\* flag, the run ends there: the gate of the current transaction is not
\* presented and no error-level line is logged for it.
C14_CancelInFlightExitsLoop ==
    \A k \in EventsOf("response") :
        trace[k].what = "cancelled" =>
            /\ pc = "idle"
            /\ \A m \in (k + 1)..Len(trace) : trace[m].ev # "gate"
            /\ \A n \in DOMAIN log : log[n].tx = trace[k].tx => log[n].cls # "err"

\* C15: every transaction that reached a terminal outcome has exactly one
\* line in the log among Updated, Skipped, Cancelled and the error lines,
\* also when its suggestion call had failed before the decision.
OutcomeLines == {"Updated", "Skipped", "Cancelled by user", "Error on"}

ErrorLines == {"Error on", "Error getting AI suggestions"}

LinesOf(t, msgs) == {n \in DOMAIN log : log[n].tx = t /\ log[n].msg \in msgs}

C15_OneOutcomeLine ==
    \A k \in EventsOf("outcome") :
        Cardinality(LinesOf(trace[k].tx, OutcomeLines \cup ErrorLines)) = 1

\* C15 as amended: every transaction that reached a terminal outcome has
\* exactly one terminal line, the one of its outcome (Updated, Skipped,
\* Cancelled, or the error line of its commit); the error line of a failed
\* suggestion call comes in addition to it.
LineOfOutcome ==
    [committed |-> "Updated", skipped |-> "Skipped",
     cancelled |-> "Cancelled by user", errored |-> "Error on"]

C15_OneTerminalLine ==
    /\ \A k \in EventsOf("outcome") :
          /\ Cardinality(LinesOf(trace[k].tx, OutcomeLines)) = 1
          /\ \A n \in LinesOf(trace[k].tx, OutcomeLines) :
                log[n].msg = LineOfOutcome[trace[k].what]
          /\ Cardinality(LinesOf(trace[k].tx, {"Error getting AI suggestions"}))
                = Cardinality({r \in EventsOf("response") :
                                  /\ trace[r].tx = trace[k].tx
                                  /\ trace[r].what # "parsed"})
    /\ \A k1, k2 \in EventsOf("outcome") : trace[k1].tx = trace[k2].tx => k1 = k2

C15_Witness ==
    \E k \in EventsOf("outcome") :
        /\ trace[k].what = "skipped"
        /\ \E r \in EventsOf("response") :
              trace[r].tx = trace[k].tx /\ trace[r].what = "failed"
        /\ Cardinality(LinesOf(trace[k].tx, OutcomeLines \cup ErrorLines)) = 2
        /\ \E k2 \in EventsOf("outcome") : trace[k2].what = "committed"

\* the normalized confidence of the specification, in units of 1 / 100000:
\* raw / 100 if raw > 1, else raw, clamped to [0, 1]
Normalized(c) ==
    LET n == IF c.v > 1000 THEN c.v ELSE c.v * 100
    IN IF n < 0 THEN 0 ELSE IF n > 100000 THEN 100000 ELSE n

\* C16: for a finite non-negative raw confidence the badge is high exactly
\* when the normalized value is at least 0.80, medium exactly when it is at
\* least 0.50 and below 0.80, low otherwise.
C16_BucketByNormalized ==
    (probe.fn = "confidence" /\ probe.applied /\ probe.raw.isNum /\ probe.raw.v >= 0) =>
        /\ probe.out.shown
        /\ probe.out.level = (IF Normalized(probe.raw) >= 80000 THEN "high"
                              ELSE IF Normalized(probe.raw) >= 50000 THEN "med"
                              ELSE "low")

\* C17: a negative or non-numeric confidence shows no badge; any other one
\* shows the percentage nearest to the normalized value (raw / 100 if
\* raw > 1, clamped to [0, 1]), which lies between 0 and 100.
C17_NormalizedOrAbsent ==
    (probe.fn = "confidence" /\ probe.applied) =>
        IF ~probe.raw.isNum \/ probe.raw.v < 0
        THEN ~probe.out.shown
        ELSE /\ probe.out.shown
             /\ probe.out.pct \in 0..100
             /\ probe.out.pct * 1000 - Normalized(probe.raw) \in -499..500

C17_Witness ==
    /\ probe.fn = "confidence"
    /\ probe.applied
    /\ probe.raw = [isNum |-> TRUE, v |-> 150000]
    /\ probe.out = [shown |-> TRUE, pct |-> 100, level |-> "high"]

\* positions at which part occurs in text
OccurrencesOf(part, text) ==
    {i \in 1..(Len(text) - Len(part) + 1) :
        text[i] = part[1] /\ SubSeq(text, i, i + Len(part) - 1) = part}

\* C18: the output of buildSystemPrompt holds the name of each given category
\* verbatim exactly once, and the names come in input order.
C18_NamesOnceInOrder ==
    (probe.fn = "prompt" /\ probe.applied) =>
        /\ \A i \in 1..Len(probe.cats) :
              Cardinality(OccurrencesOf(probe.cats[i].name, probe.out)) = 1
        /\ \A i, j \in 1..Len(probe.cats) :
              i < j => \A a \in OccurrencesOf(probe.cats[i].name, probe.out) :
                          \A b \in OccurrencesOf(probe.cats[j].name, probe.out) : a < b

\* the start of the list line of category c
EntryOf(c) ==
    NL \o <<"\"">> \o c.name \o <<"\"", " ", "(", "I", "D", ":", " ">>
       \o NumberToString(c.id) \o <<")">>

\* C18 as amended: the output holds one list line per given category, starting
\* with the quoted name and the id, and these lines come in input order,
\* between the fixed lines; the name itself may occur elsewhere in the output.
C18_EntriesOnceInOrder ==
    (probe.fn = "prompt" /\ probe.applied) =>
        /\ \A i \in 1..Len(probe.cats) :
              Cardinality(OccurrencesOf(EntryOf(probe.cats[i]), probe.out)) = 1
        /\ \A i, j \in 1..Len(probe.cats) :
              i < j => \A a \in OccurrencesOf(EntryOf(probe.cats[i]), probe.out) :
                          \A b \in OccurrencesOf(EntryOf(probe.cats[j]), probe.out) : a < b
        /\ Cardinality(OccurrencesOf(NL, probe.out))
              = Cardinality({k \in DOMAIN promptBefore : promptBefore[k] # <<>>})
                + Len(probe.cats)

C18_Witness ==
    /\ probe.fn = "prompt"
    /\ probe.applied
    /\ Len(probe.cats) = 2
    /\ probe.cats[1].name = Groceries
    /\ probe.cats[2].name = GasTransportation
    /\ Cardinality(OccurrencesOf(Groceries, probe.out)) = 1
    /\ Cardinality(OccurrencesOf(GasTransportation, probe.out)) = 3

\* position of transaction t in the fetched list
PositionOf(t) == CHOOSE j \in 1..Len(txs) : txs[j].id = t

\* C19: transactions are processed one at a time in the order of the fetched
\* list: what the run does is grouped by transaction in that order, and the
\* prompt of a transaction comes only after the gate of the one before it was
\* resolved and after its commit call, if any, returned.
C19_OneAtATimeInOrder ==
    LET work == {k \in DOMAIN trace : trace[k].ev # "cancelSet"}
    IN /\ \A k \in work : \E j \in 1..Len(txs) : txs[j].id = trace[k].tx
       /\ \A k1, k2 \in work :
             k1 < k2 => PositionOf(trace[k1].tx) <= PositionOf(trace[k2].tx)
       /\ \A k \in EventsOf("prompt") :
             LET j == PositionOf(trace[k].tx)
             IN /\ \A i \in 1..(j - 1) :
                      \E d \in 1..(k - 1) :
                          trace[d].ev = "decision" /\ trace[d].tx = txs[i].id
                /\ \A c \in 1..(k - 1) :
                      trace[c].ev = "commitCall" =>
                          \E r \in (c + 1)..(k - 1) :
                              trace[r].ev = "commitDone" /\ trace[r].tx = trace[c].tx
       /\ pc \in {"suggesting", "awaiting", "committing"} =>
             /\ idx \in 1..Len(txs)
             /\ \A k \in work : PositionOf(trace[k].tx) <= idx

C19_Witness ==
    /\ pc = "awaiting"
    /\ idx = 2
    /\ txs[1].id < txs[2].id
    /\ \E c \in EventsOf("commitCall") : trace[c].tx = txs[1].id
    /\ \E r \in EventsOf("commitDone") : trace[r].tx = txs[1].id /\ trace[r].what = "ok"

\* C20: within a run a transaction gets at most one suggestion call and at
\* most one commit call, each with at most one result: a failed call is not
\* repeated.
C20_AtMostOneCallEach ==
    \A e \in {"suggestCall", "response", "commitCall", "commitDone"} :
        \A k1, k2 \in EventsOf(e) : trace[k1].tx = trace[k2].tx => k1 = k2

C20_Witness ==
    /\ pc = "idle"
    /\ ~cancelled
    /\ Len(txs) = NumTx
    /\ \E k \in EventsOf("response") : trace[k].tx = txs[1].id /\ trace[k].what = "failed"
    /\ \E k \in EventsOf("commitDone") : trace[k].tx = txs[1].id /\ trace[k].what = "failed"
    /\ Cardinality({k \in EventsOf("suggestCall") : trace[k].tx = txs[1].id}) = 1
    /\ Cardinality({k \in EventsOf("commitCall") : trace[k].tx = txs[1].id}) = 1

\* C21: the cancellation flag goes from set to unset only in the step that
\* starts a new run, and a run starts only when no run is in progress.
C21_FlagResetOnlyAtRunStart ==
    [][/\ (cancelled /\ ~cancelled') => (runs' = runs + 1)
       /\ (runs' # runs) => (pc = "idle" /\ ~runBtnDisabled /\ runs' = runs + 1)
       /\ (pc # "idle") => runBtnDisabled]_vars

C21_Witness ==
    /\ runs = 2
    /\ pc = "idle"
    /\ cancelled
    /\ ~runBtnDisabled
    /\ \E k \in EventsOf("cancelSet") : trace[k].what = "global"

\* C22: no line of the output of buildTransactionPrompt is a label followed
\* by an empty value: after every ": " of a label something follows on the
\* same line.
C22_NoEmptyLabel ==
    (probe.fn = "txprompt" /\ probe.applied) =>
        /\ OccurrencesOf(<<":", " ">> \o NL, probe.out) = {}
        /\ SubSeq(probe.out, Len(probe.out) - 1, Len(probe.out)) # <<":", " ">>

\* C23: from the moment the categories are fetched to the end of the run the
\* category list keeps its contents and order, and each gate is rendered
\* from that list: the select holds its ids in alphabetical order of the
\* names and every suggestion row is matched against it.
C23_CategoriesNeverModified ==
    [][/\ pc \in {"fetchTxs", "suggesting", "awaiting", "committing"} =>
             categories' = categories
       /\ pc = "awaiting" =>
             /\ selectOptions = optionValues(categories)
             /\ \A i \in 1..Len(suggRows) :
                   suggRows[i].id = matchCategoryId(suggRows[i].name, categories)]_vars

C23_Witness ==
    /\ pc = "awaiting"
    /\ idx = 2
    /\ Len(categories) = 2
    /\ categories[1].id = 1
    /\ categories[2].id = 2
    /\ selectOptions = <<NumberToString(2), NumberToString(1)>>
    /\ Len(suggRows) > 0

\* C24: whatever the ledger service returned, the transactions of the run are
\* exactly its non-group entries without a category, in its order, the
\* transaction the loop is at is still uncategorized, only those
\* transactions are worked on, and the categories of the run are the
\* non-archived non-group ones.
C24_OnlyEligibleEntries ==
    /\ \A j \in 1..Len(txs) :
          /\ ~txs[j].is_group
          /\ txs[j].category_id = NULL
          /\ txs[j].id \in TxIds
    /\ \A i \in 1..Len(categories) :
          /\ ~categories[i].archived
          /\ ~categories[i].is_group
          /\ \E n \in 1..Len(ServerCategories) : ServerCategories[n] = categories[i]
    /\ pc \in {"suggesting", "awaiting", "committing"} =>
          /\ categories = filterCategories(ServerCategories)
          /\ ledger[txs[idx].id] = NULL
    /\ \A k \in DOMAIN trace :
          trace[k].ev # "cancelSet" => \E j \in 1..Len(txs) : txs[j].id = trace[k].tx

C24_Witness ==
    /\ runs = 2
    /\ pc = "awaiting"
    /\ Len(txs) = 1
    /\ \E t \in TxIds : ledger[t] # NULL /\ t # txs[1].id
    /\ Len(categories) = 2
    /\ Len(ServerCategories) = 4

\* C25: no commit call is issued once the cancellation flag is set: a gate
\* resolved after the flag was set, even by Save or Enter with a category
\* selected, is followed by the cancelled outcome and the end of the run,
\* and its transaction stays uncategorized.
C25_NoCommitOnceCancelled ==
    /\ \A k \in EventsOf("commitCall") :
          \A m \in 1..(k - 1) : trace[m].ev # "cancelSet"
    /\ \A d \in EventsOf("decision") :
          (\E m \in 1..(d - 1) : trace[m].ev = "cancelSet") =>
              /\ d < Len(trace)
              /\ trace[d + 1].ev = "outcome"
              /\ trace[d + 1].what = "cancelled"
              /\ trace[d + 1].tx = trace[d].tx
              /\ pc = "idle"
              /\ ledger[trace[d].tx] = NULL

C25_Witness ==
    /\ pc = "idle"
    /\ cancelled
    /\ \E d \in EventsOf("decision") :
          /\ trace[d].what = "save"
          /\ trace[d].id # NULL
          /\ trace[d].sel = NumberToString(trace[d].id)
          /\ \E m \in 1..(d - 1) :
                /\ trace[m].ev = "cancelSet"
                /\ trace[m].what = "global"
                /\ trace[m].at = "awaiting"

\* C26: a save with a category selected, the flag being unset, is followed
\* at once by the commit call with the id of the selected category, whatever
\* that id is; it is never followed by the skipped outcome.
C26_SaveCommitsSelection ==
    \A d \in EventsOf("decision") :
        (/\ trace[d].what = "save"
         /\ trace[d].sel # <<>>
         /\ \A m \in 1..(d - 1) : trace[m].ev # "cancelSet") =>
            /\ d < Len(trace)
            /\ trace[d + 1].ev = "commitCall"
            /\ trace[d + 1].tx = trace[d].tx
            /\ trace[d + 1].id = StringToNumber(trace[d].sel)

\* C27: a run that entered the loop and ended has logged exactly one
\* terminal line, Finished when the flag was never set and Cancelled by user
\* when it was set, whenever the cancel came.
TerminalLines(msg) == {n \in DOMAIN log : log[n].msg = msg}

C27_OneTerminalLinePerRun ==
    (/\ pc = "idle"
     /\ \E n \in DOMAIN log : log[n].msg = "Found uncategorized transactions") =>
        IF cancelled
        THEN /\ Cardinality(TerminalLines("Cancelled by user")) = 1
             /\ TerminalLines("Finished") = {}
        ELSE /\ Cardinality(TerminalLines("Finished")) = 1
             /\ TerminalLines("Cancelled by user") = {}

\* C28: when the response parses, the result is made of the first three
\* entries of its suggestions array that have a non-empty trimmed name, in
\* their order, with the name trimmed and a non-numeric confidence absent;
\* a missing or non-array suggestions member gives the empty list.
C28_FirstThreeNamed ==
    (probe.fn = "parse" /\ probe.applied) =>
        LET jsonText == trimTok(FencedInterior(trimTok(probe.text)))
            opens == {i \in 1..Len(jsonText) : jsonText[i].kind = "lb"}
            closes == {i \in 1..Len(jsonText) : jsonText[i].kind = "rb"}
            direct == JSONparse(jsonText)
            parsed == IF direct.ok \/ opens = {} \/ closes = {} THEN direct
                      ELSE IF Max(closes) <= Min(opens) THEN direct
                      ELSE JSONparse(SubSeq(jsonText, Min(opens), Max(closes)))
            arr == parsed.arr
            named == {i \in 1..Len(arr) : trim(arr[i].name) # <<>>}
            nth(n) == CHOOSE i \in named : Cardinality({j \in named : j <= i}) = n
            out == probe.out.suggestions
        IN parsed.ok =>
              /\ ~probe.out.threw
              /\ Len(out) <= 3
              /\ IF parsed.isArr
                 THEN /\ Len(out) = Min({3, Cardinality(named)})
                      /\ \A n \in 1..Len(out) :
                            /\ out[n].name = trim(arr[nth(n)].name)
                            /\ out[n].confidence.isNum = arr[nth(n)].confidence.isNum
                            /\ out[n].confidence.isNum =>
                                  out[n].confidence.v = arr[nth(n)].confidence.v
                 ELSE out = <<>>

C28_Witness ==
    /\ probe.fn = "parse"
    /\ probe.applied
    /\ probe.text = <<Tok("lb"), SuggTok(FourEntries), Tok("rb")>>
    /\ Len(FourEntries) = 5
    /\ FourEntries[1].name = Empty
    /\ Len(probe.out.suggestions) = 3
    /\ probe.out.suggestions[1].name = Groceries
    /\ probe.out.suggestions[3].name = Zzz

C30_ControlsRestoredAtEnd ==
    /\ (pc = "idle" /\ runs > 0) =>
          /\ ~runBtnDisabled
          /\ cancelBtnDisabled
          /\ ~gateListeners
    /\ pc # "idle" => runBtnDisabled /\ ~cancelBtnDisabled

C30_Witness ==
    /\ pc = "idle"
    /\ runs = 2
    /\ Len(log) = 1
    /\ log[1].msg \in ConfigurationErrors
    /\ cancelListeners > 0
    /\ cancelBtnDisabled
    /\ ~runBtnDisabled

====
